---- MODULE Spec2Model ----
(***************************************************************************)
(* Model of warikan's solve(): validation of the payment list, balance     *)
(* accumulation with the remainder on the last beneficiary, greedy         *)
(* creditor/debtor matching with two cursors, and the final sort of the    *)
(* repayment list.                                                         *)
(*                                                                         *)
(* A Map<PersonId, Money> is modelled as a sequence of [id, amount]        *)
(* entries in insertion order (the iteration order of a JavaScript Map).   *)
(* PersonIds are one-character strings or the empty string.                *)
(***************************************************************************)
EXTENDS Integers, Sequences, FiniteSets

\* ------------------------------------------------------------------ bounds
\* The inputs are the payment lists with at most MaxPayments payments, at
\* most MaxMentions person ids in all (each payment's payer and beneficiaries)
\* and amounts of at most MaxTotal in all.
MaxPayments == 2
MaxMentions == 4
MaxTotal == 2

\* The payments of the matcher's inputs (MatcherSpec) have amounts of at most
\* MaxAmount each.
MaxAmount == 4

\* ------------------------------------------------------------------ inputs
\* The non-empty person ids the inputs are drawn from.  Ids of both cases are
\* present because code point and locale order them differently.
Persons == {"A", "B", "a", "b"}

\* The empty string is a PersonId the validator rejects.
Ids == Persons \cup {""}

Min(a, b) == IF a <= b THEN a ELSE b

Abs(n) == IF n < 0 THEN -n ELSE n

Range(s) == {s[i] : i \in 1..Len(s)}

SeqsUpTo(S, n) == UNION {[1..k -> S] : k \in 0..n}

IsInjective(s) == \A i, j \in 1..Len(s) : i # j => s[i] # s[j]

\* The beneficiary lists the validator accepts.
ValidBeneficiaries ==
  {s \in SeqsUpTo(Persons, MaxMentions - 1) : IsInjective(s)}

\* Payments the validator rejects, one family per check of validatePayment.
InvalidPayments ==
  [amount : {-1}, payer : {"A", ""}, beneficiaries : {<<"B">>, <<"B", "B">>}]
  \cup [amount : {0, 1}, payer : {""}, beneficiaries : {<<>>, <<"B">>, <<"">>}]
  \cup [amount : {0, 1}, payer : {"A"},
        beneficiaries : {<<"">>, <<"", "">>, <<"", "B">>, <<"B", "">>,
                         <<"B", "B">>, <<"A", "A">>, <<"B", "A", "B">>,
                         <<"B", "B", "">>, <<"B", "", "B">>}]

Mentions(payment) == 1 + Len(payment.beneficiaries)

\* ------------------------------------------------------------- validator
NoError == [kind |-> "none", amount |-> 0, id |-> ""]

\* The for loop over payment.beneficiaries with its `seen` set, from
\* position i on.
RECURSIVE checkBeneficiaries(_, _, _)
checkBeneficiaries(bens, i, seen) ==
  IF i > Len(bens) THEN NoError
  ELSE IF bens[i] = ""
    THEN [kind |-> "EmptyBeneficiary", amount |-> 0, id |-> ""]
  ELSE IF bens[i] \in seen
    THEN [kind |-> "DuplicateBeneficiary", amount |-> 0, id |-> bens[i]]
  ELSE checkBeneficiaries(bens, i + 1, seen \cup {bens[i]})

\* validatePayment with the checks left out for a payment the accumulator
\* would skip.
validatePaymentUnlessSkipped(payment) ==
  IF payment.amount = 0 \/ Len(payment.beneficiaries) = 0 THEN NoError
  ELSE IF payment.amount < 0
    THEN [kind |-> "NegativeAmount", amount |-> payment.amount, id |-> ""]
  ELSE IF payment.payer = ""
    THEN [kind |-> "EmptyPayer", amount |-> 0, id |-> ""]
  ELSE checkBeneficiaries(payment.beneficiaries, 1, {})

\* validatePayment: the Error thrown, or NoError when it returns.
validatePayment(payment) ==
  IF payment.amount < 0
    THEN [kind |-> "NegativeAmount", amount |-> payment.amount, id |-> ""]
  ELSE IF payment.payer = ""
    THEN [kind |-> "EmptyPayer", amount |-> 0, id |-> ""]
  ELSE checkBeneficiaries(payment.beneficiaries, 1, {})

\* ----------------------------------------------------- balance accumulator
HasEntry(balances, id) == \E k \in 1..Len(balances) : balances[k].id = id

EntryIndex(balances, id) == CHOOSE k \in 1..Len(balances) : balances[k].id = id

\* getBalance: balances.get(id) ?? 0
getBalance(balances, id) ==
  IF HasEntry(balances, id) THEN balances[EntryIndex(balances, id)].amount ELSE 0

\* addBalance: balances.set(id, getBalance(id) + amount).  Map.set keeps the
\* position of an existing key and appends a new one.
addBalance(balances, id, amount) ==
  IF HasEntry(balances, id)
    THEN [balances EXCEPT ![EntryIndex(balances, id)].amount = @ + amount]
    ELSE Append(balances, [id |-> id, amount |-> amount])

\* Math.floor(payment.amount / count), for count > 0.
perPerson(payment) == payment.amount \div Len(payment.beneficiaries)

remainder(payment) ==
  payment.amount - perPerson(payment) * Len(payment.beneficiaries)

\* share with the remainder dropped.
shareWithoutRemainder(payment, i) == perPerson(payment)

\* share with the remainder on the first beneficiary.
shareRemainderFirst(payment, i) ==
  IF i = 1 THEN perPerson(payment) + remainder(payment) ELSE perPerson(payment)

\* The share of the beneficiary at (1-based) position i.
share(payment, i) ==
  IF i = Len(payment.beneficiaries)
    THEN perPerson(payment) + remainder(payment)
    ELSE perPerson(payment)

\* The inner for loop: debit beneficiaries i..count.
RECURSIVE debitFrom(_, _, _)
debitFrom(balances, payment, i) ==
  IF i > Len(payment.beneficiaries) THEN balances
  ELSE debitFrom(addBalance(balances, payment.beneficiaries[i], -share(payment, i)),
                 payment, i + 1)

\* The skip test without its amount === 0 half.
skippedOnlyWhenEmpty(payment) == Len(payment.beneficiaries) = 0

\* The skip test at the head of the loop body.
skipped(payment) == payment.amount = 0 \/ Len(payment.beneficiaries) = 0

\* One iteration of the loop over payments.
applyPayment(balances, payment) ==
  IF skipped(payment) THEN balances
  ELSE debitFrom(addBalance(balances, payment.payer, payment.amount), payment, 1)

RECURSIVE accumulate(_, _, _)
accumulate(balances, payments, i) ==
  IF i > Len(payments) THEN balances
  ELSE accumulate(applyPayment(balances, payments[i]), payments, i + 1)

calculateBalances(payments) == accumulate(<<>>, payments, 1)

\* ------------------------------------------------------ settlement matcher
\* creditorsOf with balance >= 0 for balance > 0.
creditorsOfWithZero(balances) ==
  SelectSeq(balances, LAMBDA e : e.amount >= 0)

\* The classification loop over the Map's entries, in insertion order.
creditorsOf(balances) ==
  SelectSeq(balances, LAMBDA e : e.amount > 0)

debtorsOf(balances) ==
  LET neg == SelectSeq(balances, LAMBDA e : e.amount < 0)
  IN  [k \in 1..Len(neg) |-> [id |-> neg[k].id, amount |-> -neg[k].amount]]

\* insertDesc placing e in front of the entries of equal amount (an unstable
\* sort).
RECURSIVE insertDescUnstable(_, _)
insertDescUnstable(sorted, e) ==
  IF sorted = <<>> THEN <<e>>
  ELSE IF Head(sorted).amount > e.amount
    THEN <<Head(sorted)>> \o insertDescUnstable(Tail(sorted), e)
  ELSE <<e>> \o sorted

\* Insert e into a list already sorted by amount descending, behind every
\* entry whose amount is at least e's: entries of equal amount keep their order.
RECURSIVE insertDesc(_, _)
insertDesc(sorted, e) ==
  IF sorted = <<>> THEN <<e>>
  ELSE IF Head(sorted).amount >= e.amount
    THEN <<Head(sorted)>> \o insertDesc(Tail(sorted), e)
  ELSE <<e>> \o sorted

\* list.sort((a, b) => b.amount - a.amount): Array.prototype.sort is stable.
RECURSIVE sortDesc(_)
sortDesc(list) ==
  IF list = <<>> THEN <<>>
  ELSE insertDesc(sortDesc(SubSeq(list, 1, Len(list) - 1)), list[Len(list)])

\* The loop condition; ci and di are 0-based as in the source.
matching(cs, ds, i, j) == i < Len(cs) /\ j < Len(ds)

\* matchIteration with from and to exchanged.
matchIterationSwapped(cs, ds, i, j, reps) ==
  LET creditor == cs[i + 1]
      debtor == ds[j + 1]
      amount == Min(creditor.amount, debtor.amount)
      cAfter == creditor.amount - amount
      dAfter == debtor.amount - amount
  IN  [creditors |-> [cs EXCEPT ![i + 1].amount = cAfter],
       debtors |-> [ds EXCEPT ![j + 1].amount = dAfter],
       ci |-> IF cAfter = 0 THEN i + 1 ELSE i,
       di |-> IF dAfter = 0 THEN j + 1 ELSE j,
       repayments |-> Append(reps, [amount |-> amount, from |-> creditor.id,
                                    to |-> debtor.id])]

\* matchIteration with the debtor cursor's test reading the creditor.
matchIterationCreditorTwice(cs, ds, i, j, reps) ==
  LET creditor == cs[i + 1]
      debtor == ds[j + 1]
      amount == Min(creditor.amount, debtor.amount)
      cAfter == creditor.amount - amount
      dAfter == debtor.amount - amount
  IN  [creditors |-> [cs EXCEPT ![i + 1].amount = cAfter],
       debtors |-> [ds EXCEPT ![j + 1].amount = dAfter],
       ci |-> IF cAfter = 0 THEN i + 1 ELSE i,
       di |-> IF cAfter = 0 THEN j + 1 ELSE j,
       repayments |-> Append(reps, [amount |-> amount, from |-> debtor.id,
                                    to |-> creditor.id])]

\* matchIteration with `else if` for the second cursor test.
matchIterationElseIf(cs, ds, i, j, reps) ==
  LET creditor == cs[i + 1]
      debtor == ds[j + 1]
      amount == Min(creditor.amount, debtor.amount)
      cAfter == creditor.amount - amount
      dAfter == debtor.amount - amount
  IN  [creditors |-> [cs EXCEPT ![i + 1].amount = cAfter],
       debtors |-> [ds EXCEPT ![j + 1].amount = dAfter],
       ci |-> IF cAfter = 0 THEN i + 1 ELSE i,
       di |-> IF cAfter # 0 /\ dAfter = 0 THEN j + 1 ELSE j,
       repayments |-> Append(reps, [amount |-> amount, from |-> debtor.id,
                                    to |-> creditor.id])]

\* matchIteration settling one unit of money per iteration.
matchIterationUnitSteps(cs, ds, i, j, reps) ==
  LET creditor == cs[i + 1]
      debtor == ds[j + 1]
      amount == Min(1, Min(creditor.amount, debtor.amount))
      cAfter == creditor.amount - amount
      dAfter == debtor.amount - amount
  IN  [creditors |-> [cs EXCEPT ![i + 1].amount = cAfter],
       debtors |-> [ds EXCEPT ![j + 1].amount = dAfter],
       ci |-> IF cAfter = 0 THEN i + 1 ELSE i,
       di |-> IF dAfter = 0 THEN j + 1 ELSE j,
       repayments |-> Append(reps, [amount |-> amount, from |-> debtor.id,
                                    to |-> creditor.id])]

\* One iteration of the while loop.
matchIteration(cs, ds, i, j, reps) ==
  LET creditor == cs[i + 1]
      debtor == ds[j + 1]
      amount == Min(creditor.amount, debtor.amount)
      cAfter == creditor.amount - amount
      dAfter == debtor.amount - amount
  IN  [creditors |-> [cs EXCEPT ![i + 1].amount = cAfter],
       debtors |-> [ds EXCEPT ![j + 1].amount = dAfter],
       ci |-> IF cAfter = 0 THEN i + 1 ELSE i,
       di |-> IF dAfter = 0 THEN j + 1 ELSE j,
       repayments |-> Append(reps, [amount |-> amount, from |-> debtor.id,
                                    to |-> creditor.id])]

RECURSIVE matchLoop(_, _, _, _, _)
matchLoop(cs, ds, i, j, reps) ==
  IF ~matching(cs, ds, i, j) THEN reps
  ELSE LET n == matchIteration(cs, ds, i, j, reps)
       IN  matchLoop(n.creditors, n.debtors, n.ci, n.di, n.repayments)

generateRepayments(balances) ==
  matchLoop(sortDesc(creditorsOf(balances)), sortDesc(debtorsOf(balances)),
            0, 0, <<>>)

\* ----------------------------------------------------------- result sorter
Sign(n) == IF n < 0 THEN -1 ELSE IF n > 0 THEN 1 ELSE 0

\* The collation key of a one-character id under the default (ICU root)
\* collation String.prototype.localeCompare uses: first the letter regardless
\* of case, then lower case before upper case.
CollationKey(c) ==
  CASE c = "a" -> 10 [] c = "A" -> 11 [] c = "b" -> 20 [] c = "B" -> 21
    [] c = "c" -> 30 [] c = "C" -> 31 [] c = "d" -> 40 [] c = "D" -> 41

\* x.localeCompare(y)
localeCompare(x, y) ==
  IF x = y THEN 0
  ELSE IF x = "" THEN -1
  ELSE IF y = "" THEN 1
  ELSE Sign(CollationKey(x) - CollationKey(y))

\* The comparator handed to repayments.sort.
compareRepayments(x, y) ==
  LET fromCmp == localeCompare(x.from, y.from)
  IN  IF fromCmp # 0 THEN fromCmp ELSE localeCompare(x.to, y.to)

RECURSIVE insertRepayment(_, _)
insertRepayment(sorted, r) ==
  IF sorted = <<>> THEN <<r>>
  ELSE IF compareRepayments(Head(sorted), r) <= 0
    THEN <<Head(sorted)>> \o insertRepayment(Tail(sorted), r)
  ELSE <<r>> \o sorted

\* repayments.sort(comparator), stable.
RECURSIVE sortRepayments(_)
sortRepayments(reps) ==
  IF reps = <<>> THEN <<>>
  ELSE insertRepayment(sortRepayments(SubSeq(reps, 1, Len(reps) - 1)),
                       reps[Len(reps)])

\* ------------------------------------------------------------------- solve
\* The error of the first payment validatePayment rejects, from index i on.
RECURSIVE validateFrom(_, _)
validateFrom(payments, i) ==
  IF i > Len(payments) THEN NoError
  ELSE IF validatePayment(payments[i]) # NoError THEN validatePayment(payments[i])
  ELSE validateFrom(payments, i + 1)

\* solve as a function of its argument: the error thrown and the list returned.
solve(payments) ==
  IF validateFrom(payments, 1) # NoError
    THEN [error |-> validateFrom(payments, 1), value |-> <<>>]
    ELSE [error |-> NoError,
          value |-> sortRepayments(generateRepayments(calculateBalances(payments)))]

\* ----------------------------------------------------------- state machine
VARIABLES
  payments,    \* the argument of solve
  pc,          \* where solve is: "validate", "balances", "match", "done", "failed"
  vi,          \* payments validated so far (the validation loop's position)
  error,       \* the Error thrown, NoError while none
  balances,    \* the Map calculateBalances builds
  pi,          \* payments accumulated so far (the accumulation loop's position)
  creditors,   \* generateRepayments' creditors array
  debtors,     \* generateRepayments' debtors array
  ci,          \* creditor cursor
  di,          \* debtor cursor
  repayments,  \* generateRepayments' repayments array
  result       \* the list solve returned, once pc = "done"

vars == <<payments, pc, vi, error, balances, pi, creditors, debtors, ci, di,
          repayments, result>>

\* payments is list, or list followed by at most n more payments with at
\* most w ids and amounts of at most t in all.
RECURSIVE ArgumentFrom(_, _, _, _)
ArgumentFrom(list, n, w, t) ==
  \/ payments = list
  \/ /\ n > 0
     /\ \E amount \in 0..t, payer \in Persons, beneficiaries \in ValidBeneficiaries :
          /\ Len(beneficiaries) < w
          /\ ArgumentFrom(Append(list, [amount |-> amount, payer |-> payer,
                                        beneficiaries |-> beneficiaries]),
                          n - 1, w - 1 - Len(beneficiaries), t - amount)
  \/ /\ n > 0
     /\ \E payment \in InvalidPayments :
          /\ Mentions(payment) <= w
          /\ Abs(payment.amount) <= t
          /\ ArgumentFrom(Append(list, payment), n - 1, w - Mentions(payment),
                          t - Abs(payment.amount))

Init ==
  /\ ArgumentFrom(<<>>, MaxPayments, MaxMentions, MaxTotal)
  /\ pc = "validate"
  /\ vi = 0
  /\ error = NoError
  /\ balances = <<>>
  /\ pi = 0
  /\ creditors = <<>>
  /\ debtors = <<>>
  /\ ci = 0
  /\ di = 0
  /\ repayments = <<>>
  /\ result = <<>>

\* validatePayment returns for the next payment.
ValidateOk ==
  /\ pc = "validate"
  /\ vi < Len(payments)
  /\ validatePayment(payments[vi + 1]) = NoError
  /\ vi' = vi + 1
  /\ UNCHANGED <<payments, pc, error, balances, pi, creditors, debtors, ci, di,
                 repayments, result>>

\* validatePayment throws for the next payment: solve ends with that Error.
ValidateThrow ==
  /\ pc = "validate"
  /\ vi < Len(payments)
  /\ validatePayment(payments[vi + 1]) # NoError
  /\ error' = validatePayment(payments[vi + 1])
  /\ pc' = "failed"
  /\ UNCHANGED <<payments, vi, balances, pi, creditors, debtors, ci, di,
                 repayments, result>>

\* The validation loop is over: calculateBalances starts with an empty Map.
StartBalances ==
  /\ pc = "validate"
  /\ vi = Len(payments)
  /\ pc' = "balances"
  /\ balances' = <<>>
  /\ pi' = 0
  /\ UNCHANGED <<payments, vi, error, creditors, debtors, ci, di, repayments,
                 result>>

\* One iteration of calculateBalances' loop over the payments.
Accumulate ==
  /\ pc = "balances"
  /\ pi < Len(payments)
  /\ balances' = applyPayment(balances, payments[pi + 1])
  /\ pi' = pi + 1
  /\ UNCHANGED <<payments, pc, vi, error, creditors, debtors, ci, di,
                 repayments, result>>

\* calculateBalances returns; generateRepayments classifies and sorts the
\* entries and sets up the cursors.
Classify ==
  /\ pc = "balances"
  /\ pi = Len(payments)
  /\ creditors' = sortDesc(creditorsOf(balances))
  /\ debtors' = sortDesc(debtorsOf(balances))
  /\ repayments' = <<>>
  /\ ci' = 0
  /\ di' = 0
  /\ pc' = "match"
  /\ UNCHANGED <<payments, vi, error, balances, pi, result>>

\* One iteration of the matching loop.
Match ==
  /\ pc = "match"
  /\ matching(creditors, debtors, ci, di)
  /\ LET n == matchIteration(creditors, debtors, ci, di, repayments)
     IN  /\ creditors' = n.creditors
         /\ debtors' = n.debtors
         /\ ci' = n.ci
         /\ di' = n.di
         /\ repayments' = n.repayments
  /\ UNCHANGED <<payments, pc, vi, error, balances, pi, result>>

\* The matching loop is over: solve sorts the array in place and returns it.
Return ==
  /\ pc = "match"
  /\ ~matching(creditors, debtors, ci, di)
  /\ repayments' = sortRepayments(repayments)
  /\ result' = sortRepayments(repayments)
  /\ pc' = "done"
  /\ UNCHANGED <<payments, vi, error, balances, pi, creditors, debtors, ci, di>>

Next ==
  \/ ValidateOk
  \/ ValidateThrow
  \/ StartBalances
  \/ Accumulate
  \/ Classify
  \/ Match
  \/ Return

Spec == Init /\ [][Next]_vars

\* solve runs to its end: no step is ever left pending.
FairSpec == Spec /\ WF_vars(Next)

\* The inputs that exercise the matching loop: at most MaxPayments payments,
\* each paid by A or B for a, b or both, of an amount up to MaxAmount (or the
\* negative amount the validator rejects).  Several creditors and debtors of
\* different amounts arise, and the cursors advance at different times.
MatcherPayments ==
  [amount : -1..MaxAmount, payer : {"A", "B"},
   beneficiaries : {<<"a">>, <<"b">>, <<"a", "b">>, <<"b", "a">>}]

MatcherInit ==
  /\ \E n \in 0..MaxPayments : payments \in [1..n -> MatcherPayments]
  /\ pc = "validate"
  /\ vi = 0
  /\ error = NoError
  /\ balances = <<>>
  /\ pi = 0
  /\ creditors = <<>>
  /\ debtors = <<>>
  /\ ci = 0
  /\ di = 0
  /\ repayments = <<>>
  /\ result = <<>>

MatcherSpec == MatcherInit /\ [][Next]_vars

\* ---------------------------------------------------------------- claims
RECURSIVE SumAmounts(_)
SumAmounts(list) ==
  IF list = <<>> THEN 0 ELSE Head(list).amount + SumAmounts(Tail(list))

\* What the repayments of reps pay to person p, and what p pays.
RECURSIVE Received(_, _)
Received(reps, p) ==
  IF reps = <<>> THEN 0
  ELSE (IF Head(reps).to = p THEN Head(reps).amount ELSE 0) + Received(Tail(reps), p)

RECURSIVE Paid(_, _)
Paid(reps, p) ==
  IF reps = <<>> THEN 0
  ELSE (IF Head(reps).from = p THEN Head(reps).amount ELSE 0) + Paid(Tail(reps), p)

NumCreditors == Cardinality({k \in 1..Len(balances) : balances[k].amount > 0})

NumDebtors == Cardinality({k \in 1..Len(balances) : balances[k].amount < 0})

\* C1: once solve has returned, subtracting every returned repayment's amount
\* from the balance of its `to` and adding it to the balance of its `from`
\* leaves every person's balance at 0.
C1_SettlementCorrectness ==
  pc = "done" =>
    \A p \in Ids :
      getBalance(balances, p) - Received(result, p) + Paid(result, p) = 0

C1_Witness ==
  /\ pc = "done"
  /\ Len(result) >= 2
  /\ NumCreditors >= 2

\* C2: after any number of payments has been accumulated, the values of the
\* balance mapping sum to 0.
C2_Conservation == SumAmounts(balances) = 0

C2_Witness ==
  /\ pc = "balances"
  /\ 0 < pi
  /\ pi < Len(payments)
  /\ \E k \in 1..Len(balances) : balances[k].amount # 0
  /\ Len(payments[pi].beneficiaries) = 2
  /\ payments[pi].amount = 1

\* A payment that breaks one of the four rules.
Violates(payment) ==
  \/ payment.amount < 0
  \/ payment.payer = ""
  \/ \E i \in 1..Len(payment.beneficiaries) : payment.beneficiaries[i] = ""
  \/ ~IsInjective(payment.beneficiaries)

\* Position j of a beneficiary list is empty or repeats an earlier position.
BadPosition(bens, j) == bens[j] = "" \/ \E i \in 1..(j - 1) : bens[i] = bens[j]

FirstBadPosition(bens) ==
  CHOOSE j \in 1..Len(bens) :
    BadPosition(bens, j) /\ \A i \in 1..(j - 1) : ~BadPosition(bens, i)

FirstViolating ==
  CHOOSE k \in 1..Len(payments) :
    Violates(payments[k]) /\ \A i \in 1..(k - 1) : ~Violates(payments[i])

\* The failure of a violating payment: its amount, else its payer, else the
\* first bad position of its beneficiary list.
FailureOf(payment) ==
  IF payment.amount < 0
    THEN [kind |-> "NegativeAmount", amount |-> payment.amount, id |-> ""]
  ELSE IF payment.payer = ""
    THEN [kind |-> "EmptyPayer", amount |-> 0, id |-> ""]
  ELSE LET b == payment.beneficiaries[FirstBadPosition(payment.beneficiaries)]
       IN  IF b = "" THEN [kind |-> "EmptyBeneficiary", amount |-> 0, id |-> ""]
           ELSE [kind |-> "DuplicateBeneficiary", amount |-> 0, id |-> b]

AnyViolation == \E k \in 1..Len(payments) : Violates(payments[k])

\* C3: when some payment of the input breaks a rule (a zero-amount payment
\* included), solve never gets past validation, computes no balance and
\* returns no list, and the failure it raises is that of the first violating
\* payment, at the first bad position of its beneficiaries; balances are only
\* computed once every payment has been validated.
C3_ValidationFailFast ==
  /\ AnyViolation =>
       /\ pc \in {"validate", "failed"}
       /\ vi < FirstViolating
       /\ balances = <<>>
       /\ result = <<>>
       /\ pc = "failed" =>
            /\ vi = FirstViolating - 1
            /\ error = FailureOf(payments[FirstViolating])
  /\ ~AnyViolation => pc # "failed" /\ error = NoError
  /\ pc \in {"balances", "match", "done"} => vi = Len(payments)

C3_Witness ==
  /\ pc = "failed"
  /\ vi = 1
  /\ payments[2].amount = 0
  /\ error.kind = "DuplicateBeneficiary"
  /\ balances = <<>>

\* The code point of a one-character id.
CodePoint(c) ==
  CASE c = "A" -> 65 [] c = "B" -> 66 [] c = "C" -> 67 [] c = "D" -> 68
    [] c = "a" -> 97 [] c = "b" -> 98 [] c = "c" -> 99 [] c = "d" -> 100

\* Code-point (ordinal) comparison of ids; the empty string is a prefix of
\* every string and sorts first.
codePointCompare(x, y) ==
  IF x = y THEN 0
  ELSE IF x = "" THEN -1
  ELSE IF y = "" THEN 1
  ELSE Sign(CodePoint(x) - CodePoint(y))

\* (from, to) of x is before or equal to that of y, by code point.
CodePointOrdered(x, y) ==
  \/ codePointCompare(x.from, y.from) < 0
  \/ codePointCompare(x.from, y.from) = 0 /\ codePointCompare(x.to, y.to) <= 0

\* C4: the list solve returns is ascending by `from`, then by `to`, both
\* compared by code point.
C4_OutputOrder ==
  pc = "done" =>
    \A i, j \in 1..Len(result) : i < j => CodePointOrdered(result[i], result[j])

\* C5 as stated: the number of repayments is at most
\* #creditors + #debtors - 1, the empty and the cancelling inputs included.
C5_TransferBoundOriginal ==
  pc = "done" => Len(result) <= NumCreditors + NumDebtors - 1

\* C5, amended: while matching and on return, the number of repayments is at
\* most #creditors + #debtors - 1 when some person has a non-zero balance,
\* and 0 when none has.
C5_TransferBound ==
  pc \in {"match", "done"} =>
    IF NumCreditors + NumDebtors = 0
      THEN repayments = <<>> /\ result = <<>>
      ELSE /\ Len(repayments) <= NumCreditors + NumDebtors - 1
           /\ Len(result) <= NumCreditors + NumDebtors - 1

C5_Witness ==
  /\ pc = "done"
  /\ NumCreditors = 2
  /\ NumDebtors = 1
  /\ Len(result) = 2

\* C6: every repayment the matching loop has emitted, and every repayment
\* solve returns, has an amount greater than 0.
C6_PositiveAmounts ==
  /\ \A k \in 1..Len(repayments) : repayments[k].amount > 0
  /\ \A k \in 1..Len(result) : result[k].amount > 0

C6_Witness ==
  /\ pc = "done"
  /\ Len(result) = 2
  /\ NumCreditors = 2
  /\ NumDebtors = 2

\* The list without its k-th element.
RemoveAt(list, k) == SubSeq(list, 1, k - 1) \o SubSeq(list, k + 1, Len(list))

\* A payment of amount 0 or without beneficiaries.
NoEffect(payment) == payment.amount = 0 \/ payment.beneficiaries = <<>>

\* C7: when solve has returned for an input holding a payment of amount 0 or
\* without beneficiaries, the balance mapping (entries, values, order) and the
\* returned list are those of the input with that payment removed, and
\* no error was raised.
C7_SkippedPaymentHasNoEffect ==
  pc = "done" =>
    \A k \in 1..Len(payments) :
      NoEffect(payments[k]) =>
        /\ error = NoError
        /\ balances = calculateBalances(RemoveAt(payments, k))
        /\ solve(RemoveAt(payments, k)) = [error |-> NoError, value |-> result]

C7_Witness ==
  /\ pc = "done"
  /\ Len(payments) = 2
  /\ payments[1].amount = 0
  /\ payments[1].beneficiaries # <<>>
  /\ payments[2].beneficiaries # <<>>
  /\ result # <<>>

\* What the step from balances to balances' takes from the beneficiary at
\* position i of payment, the payer's own credit set aside.
Debit(payment, i) ==
  getBalance(balances, payment.beneficiaries[i])
    - getBalance(balances', payment.beneficiaries[i])
    + (IF payment.beneficiaries[i] = payment.payer THEN payment.amount ELSE 0)

RECURSIVE SumTo(_, _)
SumTo(f, n) == IF n = 0 THEN 0 ELSE f[n] + SumTo(f, n - 1)

\* C8: the step that accumulates a payment with amount > 0 and count >= 1
\* beneficiaries takes floor(amount / count) from every beneficiary but the
\* last and floor(amount / count) + remainder from the last, with
\* remainder = amount - floor(amount / count) * count in [0, count), and
\* the debits sum to amount.
C8_RemainderExactness ==
  [][(pc = "balances" /\ pi' = pi + 1 /\ ~NoEffect(payments[pi + 1])) =>
       LET payment == payments[pi + 1]
           count == Len(payment.beneficiaries)
           floor == CHOOSE q \in 0..payment.amount :
                      q * count <= payment.amount /\ payment.amount < (q + 1) * count
           rest == payment.amount - floor * count
           debits == [i \in 1..count |-> Debit(payment, i)]
       IN  /\ \A i \in 1..(count - 1) : debits[i] = floor
           /\ debits[count] = floor + rest
           /\ 0 <= rest /\ rest < count
           /\ SumTo(debits, count) = payment.amount]_vars

C8_Witness ==
  /\ pc = "balances"
  /\ pi = 1
  /\ payments[1].amount = 2
  /\ Len(payments[1].beneficiaries) = 3
  /\ payments[1].payer = payments[1].beneficiaries[2]

\* The ids in the order in which they first receive a balance entry: payments
\* in input order, payer first, then the beneficiaries; payments without
\* effect give no entry.
RECURSIVE Occurrences(_)
Occurrences(list) ==
  IF list = <<>> THEN <<>>
  ELSE (IF NoEffect(Head(list)) THEN <<>>
        ELSE <<Head(list).payer>> \o Head(list).beneficiaries)
       \o Occurrences(Tail(list))

FirstOccurrence(id) ==
  CHOOSE k \in 1..Len(Occurrences(payments)) :
    /\ Occurrences(payments)[k] = id
    /\ \A i \in 1..(k - 1) : Occurrences(payments)[i] # id

\* Amount descending, ties by first occurrence.
LargestFirstStable(list) ==
  \A i, j \in 1..Len(list) :
    i < j =>
      \/ list[i].amount > list[j].amount
      \/ /\ list[i].amount = list[j].amount
         /\ FirstOccurrence(list[i].id) < FirstOccurrence(list[j].id)

SortExample ==
  <<[amount |-> 100, payer |-> "A", beneficiaries |-> <<"C">>],
    [amount |-> 100, payer |-> "B", beneficiaries |-> <<"D">>]>>

SortExampleResult == solve(SortExample).value

Exhausted(list) == \A k \in 1..Len(list) : list[k].amount = 0

\* C10: the matching loop ends (solve goes on to return), and once it has
\* ended ci is the number of creditors, di the number of debtors, and every
\* creditor's and debtor's remaining amount is 0.
C10_MatcherTermination ==
  /\ [](pc = "match" => <>(pc = "done"))
  /\ []((pc = "done" \/ (pc = "match" /\ ~matching(creditors, debtors, ci, di))) =>
          /\ ci = Len(creditors)
          /\ di = Len(debtors)
          /\ Exhausted(creditors)
          /\ Exhausted(debtors))

C10_Witness ==
  /\ pc = "match"
  /\ ~matching(creditors, debtors, ci, di)
  /\ Len(repayments) = 2
  /\ ci = 1
  /\ di = 2

\* A creditor or debtor of list with the largest remaining amount.
HasLargestRemaining(list, k) ==
  \A m \in 1..Len(list) : list[m].amount <= list[k].amount

\* C11: every iteration of the matching loop emits a repayment to a creditor
\* whose remaining amount, when the iteration starts, is the largest among all
\* creditors, from a debtor whose remaining amount is the largest among all
\* debtors.
C11_GreedyLargestFirst ==
  [][(pc = "match" /\ Len(repayments') = Len(repayments) + 1) =>
       LET emitted == repayments'[Len(repayments')]
       IN  /\ \E k \in 1..Len(creditors) :
                 /\ creditors[k].id = emitted.to
                 /\ HasLargestRemaining(creditors, k)
           /\ \E k \in 1..Len(debtors) :
                 /\ debtors[k].id = emitted.from
                 /\ HasLargestRemaining(debtors, k)]_vars

\* Positions i and j of reps hold repayments of the same (from, to) pair.
SamePair(reps, i, j) ==
  /\ reps[i].from = reps[j].from
  /\ reps[i].to = reps[j].to

\* C12: the list solve returns for a valid payment list never holds two
\* repayments with the same (from, to) pair.
C12_NoDuplicatePairs ==
  pc = "done" =>
    \A i, j \in 1..Len(result) : i # j => ~SamePair(result, i, j)

\* solve has returned three repayments, two of them from the same person and
\* two of them to the same person.
C12_Witness ==
  /\ pc = "done"
  /\ Len(result) = 3
  /\ \E i, j \in 1..Len(result) : i # j /\ result[i].from = result[j].from
  /\ \E i, j \in 1..Len(result) : i # j /\ result[i].to = result[j].to

====
